---- MODULE Spec2Model ----
(***************************************************************************)
(* Model of Software/hd_medi_data.py: split_sections (segmenter), make_df  *)
(* with tag_importance / tag_topic (tagger), process_user_input and        *)
(* additional_tagging (personalization).                                   *)
(*                                                                         *)
(* A Python str is a sequence of characters; a character is a one-token    *)
(* TLA+ string.  Latin letters, digits and punctuation stand for           *)
(* themselves.  A Hangul syllable is written as its romanization ("hyeol"  *)
(* is U+D608, "ap" is U+C555, ...), and "(1)" is the circled digit U+2460. *)
(***************************************************************************)
EXTENDS Integers, Sequences, FiniteSets, TLC

VARIABLES pc, text, structured_data, keywords, rows, topic_tag_int, err,
          meds_dict, disease_dict, result_tag_int

vars == <<pc, text, structured_data, keywords, rows, topic_tag_int, err,
          meds_dict, disease_dict, result_tag_int>>

\* Longest input text, in lines.
MaxLines == 3

---------------------------------------------------------------------------
(* Characters and character classes of the regular expressions.            *)

Digit == {"1", "2"}

\* [(1)-(20)] of subsection_pattern: the circled digits.
Circled == {"(1)"}

\* [ga-hih] of subsection_pattern: the Hangul syllables.
Hangul == {"ga", "go", "hyeol", "ap", "jeo", "dang", "nyo", "byeong", "in",
           "syul", "rin", "jong", "yang", "am", "bang", "sa", "seon", "hwa",
           "hak", "yo", "beop", "ji", "jeung", "kol", "re", "seu", "te",
           "rol", "jung", "jil", "gap", "sang", "gi", "neung", "hang", "jin",
           "ha", "bi", "man", "che", "gwa", "sik", "i", "chi", "mae", "al",
           "cheu", "meo", "noe", "gyeong", "saek"}

\* \s of the regular expressions, and the characters str.strip() removes.
IsSpace(c) == c \in {" ", "\n"}

\* re.IGNORECASE folds Latin case; Hangul, digits, punctuation have no case.
Lower(c) == IF c = "A" THEN "a" ELSE IF c = "B" THEN "b" ELSE c

Min(S) == CHOOSE x \in S : \A y \in S : x <= y
Max(S) == CHOOSE x \in S : \A y \in S : x >= y

\* str.strip(): drop leading and trailing whitespace.
Strip(s) ==
  LET keep == {i \in 1..Len(s) : ~IsSpace(s[i])}
  IN  IF keep = {} THEN <<>> ELSE SubSeq(s, Min(keep), Max(keep))

\* Length of the longest prefix of s made of characters satisfying the class.
RECURSIVE Run(_, _, _)
Run(s, from, Class) ==
  IF from <= Len(s) /\ s[from] \in Class THEN 1 + Run(s, from + 1, Class) ELSE 0

\* text.split('\n')
RECURSIVE SplitLines(_)
SplitLines(s) ==
  LET nl == {i \in 1..Len(s) : s[i] = "\n"}
  IN  IF nl = {} THEN <<s>>
      ELSE <<SubSeq(s, 1, Min(nl) - 1)>> \o SplitLines(SubSeq(s, Min(nl) + 1, Len(s)))

\* section_pattern.match(line).group() for r'^(\d+\.\s[^:\n]+)'; <<>> when
\* the line does not match (a match is never empty).
SectionMatch(line) ==
  LET d    == Run(line, 1, Digit)
      stop == {i \in (d + 3)..Len(line) : line[i] \in {":", "\n"}}
      last == IF stop = {} THEN Len(line) ELSE Min(stop) - 1
  IN  IF /\ d >= 1
         /\ Len(line) >= d + 3
         /\ line[d + 1] = "."
         /\ IsSpace(line[d + 2])
         /\ last >= d + 3
      THEN SubSeq(line, 1, last)
      ELSE <<>>

\* The end of a '.*' that starts at index from: up to, not including, a newline.
DotStarEnd(line, from) ==
  LET nl == {i \in from..Len(line) : line[i] = "\n"}
  IN  IF nl = {} THEN Len(line) ELSE Min(nl) - 1

\* subsection_pattern.match(line).group() for
\* r'^(\d+\)|[(1)-(20)])\s.*|^[ga-hih]+\.\s.*'; <<>> when the line does not match.
SubsectionMatch(line) ==
  LET d == Run(line, 1, Digit)
      h == Run(line, 1, Hangul)
  IN  IF /\ d >= 1
         /\ Len(line) >= d + 2
         /\ line[d + 1] = ")"
         /\ IsSpace(line[d + 2])
      THEN SubSeq(line, 1, DotStarEnd(line, d + 3))
      ELSE IF /\ Len(line) >= 2
              /\ line[1] \in Circled
              /\ IsSpace(line[2])
      THEN SubSeq(line, 1, DotStarEnd(line, 3))
      ELSE IF /\ h >= 1
              /\ Len(line) >= h + 2
              /\ line[h + 1] = "."
              /\ IsSpace(line[h + 2])
      THEN SubSeq(line, 1, DotStarEnd(line, h + 3))
      ELSE <<>>

---------------------------------------------------------------------------
(* split_sections                                                          *)

\* A value of structured_data: a str (isList = FALSE) or a list of str.
StrValue(s)  == [isList |-> FALSE, str |-> s, list |-> <<>>]
ListValue(l) == [isList |-> TRUE, str |-> <<>>, list |-> l]

\* structured_data[key] = value on an insertion-ordered dict: an existing key
\* keeps its position and takes the new value, a new key goes last.
DictSet(data, key, value) ==
  IF \E i \in 1..Len(data) : data[i].key = key
  THEN [i \in 1..Len(data) |->
          IF data[i].key = key THEN [key |-> key, value |-> value] ELSE data[i]]
  ELSE Append(data, [key |-> key, value |-> value])

\* Flush, forgetting to trim the plain content.
FlushUntrimmed(st) ==
  IF st.current_section # <<>>
  THEN IF st.current_subsections # <<>>
       THEN DictSet(st.structured_data, st.current_section,
                    ListValue(st.current_subsections))
       ELSE DictSet(st.structured_data, st.current_section,
                    StrValue(st.current_content))
  ELSE st.structured_data

\* The save of the open section (lines 47-51 and 68-72).  current_section is
\* <<>> while it is None: both are falsy, and a match is never empty.
Flush(st) ==
  IF st.current_section # <<>>
  THEN IF st.current_subsections # <<>>
       THEN DictSet(st.structured_data, st.current_section,
                    ListValue(st.current_subsections))
       ELSE DictSet(st.structured_data, st.current_section,
                    StrValue(Strip(st.current_content)))
  ELSE st.structured_data

\* One iteration of the loop over the lines (lines 41-65).
SplitStep(st, line) ==
  LET section_match    == SectionMatch(line)
      subsection_match == SubsectionMatch(line)
  IN  IF section_match # <<>>
      THEN [structured_data     |-> Flush(st),
            current_section     |-> section_match,
            current_content     |-> <<>>,
            current_subsections |-> <<>>]
      ELSE IF subsection_match # <<>> /\ st.current_section # <<>>
      THEN [st EXCEPT
              !.current_subsections =
                 (IF st.current_content # <<>>
                  THEN Append(st.current_subsections, Strip(st.current_content))
                  ELSE st.current_subsections) \o <<subsection_match>>,
              !.current_content = <<>>]
      ELSE [st EXCEPT !.current_content = st.current_content \o <<"\n">> \o Strip(line)]

RECURSIVE SplitLoop(_, _, _)
SplitLoop(lines, i, st) ==
  IF i > Len(lines) THEN st ELSE SplitLoop(lines, i + 1, SplitStep(st, lines[i]))

\* A text is a str (isStr) or some other value, such as None.
StrText(s) == [isStr |-> TRUE, chars |-> s]
NoneText   == [isStr |-> FALSE, chars |-> <<>>]

split_sections(t) ==
  IF ~t.isStr THEN <<>>
  ELSE Flush(SplitLoop(SplitLines(t.chars), 1,
                       [structured_data     |-> <<>>,
                        current_section     |-> <<>>,
                        current_content     |-> <<>>,
                        current_subsections |-> <<>>]))

---------------------------------------------------------------------------
(* tag_importance, tag_topic, make_df                                      *)

\* keyword in section_title: literal, case-sensitive containment.
Contains(s, keyword) ==
  \E i \in 1..(Len(s) - Len(keyword) + 1) :
     \A j \in 1..Len(keyword) : s[i + j - 1] = keyword[j]

\* any(keyword in section_title for keyword in keyword_list)
RECURSIVE AnyContains(_, _)
AnyContains(section_title, keyword_list) ==
  IF keyword_list = <<>> THEN FALSE
  ELSE IF Contains(section_title, Head(keyword_list)) THEN TRUE
  ELSE AnyContains(section_title, Tail(keyword_list))

\* tag_importance, leaving the forbid list out.
tag_importance_no_forbid(section_title, forbid_list, warning_list) ==
  IF AnyContains(section_title, warning_list) THEN 1
  ELSE 2

\* tag_importance, asking for a warning keyword first.
tag_importance_warning_first(section_title, forbid_list, warning_list) ==
  IF AnyContains(section_title, warning_list) THEN 1
  ELSE IF AnyContains(section_title, forbid_list) THEN 0
  ELSE 2

tag_importance(section_title, forbid_list, warning_list) ==
  IF AnyContains(section_title, forbid_list) THEN 0
  ELSE IF AnyContains(section_title, warning_list) THEN 1
  ELSE 2

\* re.search(word, content, re.IGNORECASE) for a pattern made of literal
\* characters and '.', which matches any character but a newline.
RegexSearch(word, content) ==
  \E i \in 1..(Len(content) - Len(word) + 1) :
     \A j \in 1..Len(word) :
        IF word[j] = "." THEN content[i + j - 1] # "\n"
        ELSE Lower(content[i + j - 1]) = Lower(word[j])

\* any(re.search(word, content, re.IGNORECASE) for word in topic_keywords)
RECURSIVE AnySearch(_, _)
AnySearch(content, topic_keywords) ==
  IF topic_keywords = <<>> THEN FALSE
  ELSE IF RegexSearch(Head(topic_keywords), content) THEN TRUE
  ELSE AnySearch(content, Tail(topic_keywords))

\* Python's None, as tag_topic returns it; no category is negative.
None == -1

tag_topic(content, topic_keywords, assign_category) ==
  IF AnySearch(content, topic_keywords) THEN assign_category ELSE None

\* The truth value of "if tag:" for tag an int or None.
Truthy(tag) == tag # None /\ tag # 0

\* re.sub(numbering_pattern, '', s) for r'^\d+[.)]\s*': the pattern is
\* anchored at the start of s, so at most one match is removed.
StripNumbering(s) ==
  LET d == Run(s, 1, Digit)
  IN  IF d >= 1 /\ Len(s) >= d + 1 /\ s[d + 1] \in {".", ")"}
      THEN SubSeq(s, d + 2 + Run(s, d + 2, {" ", "\n"}), Len(s))
      ELSE s

importance_keys == {"forbid", "warning"}

\* {key: keywords[key] for key in ... if <keep>(key)}, in the order of keywords.
RECURSIVE FilterKeys(_, _, _)
FilterKeys(kw, keys, keepIn) ==
  IF kw = <<>> THEN <<>>
  ELSE (IF (Head(kw).key \in keys) = keepIn THEN <<Head(kw)>> ELSE <<>>)
       \o FilterKeys(Tail(kw), keys, keepIn)

HasKey(dict, key) == \E i \in 1..Len(dict) : dict[i].key = key

\* dict[key], for a key the dict has.
Lookup(dict, key) == dict[CHOOSE i \in 1..Len(dict) : dict[i].key = key].value

\* topic_tag_int[topic] = i for i, topic in enumerate(topics.keys())
TopicTagInt(topics) ==
  [i \in 1..Len(topics) |-> [key |-> topics[i].key, value |-> i - 1]]

\* The tags of one text (lines 156-159, 165-169, 175-179): the topics in order,
\* skipping those whose id is in the list already, keeping the truthy tags.
RECURSIVE TopicScan(_, _, _, _)
TopicScan(content, topics, i, already) ==
  IF i > Len(topics) THEN <<>>
  ELSE LET id  == i - 1
           tag == tag_topic(content, topics[i].value, id)
       IN  (IF (\A k \in 1..Len(already) : already[k] # id) /\ Truthy(tag)
            THEN <<tag>> ELSE <<>>)
           \o TopicScan(content, topics, i + 1, already)

Row(section, content, importance, tags) ==
  [Section |-> section, Content |-> content,
   SectionImportance |-> importance, Topics |-> tags]

\* The rows of one item of medicine_dictionary (lines 150-182).
ItemRows(item, importance, topics) ==
  LET section_title_str  == StripNumbering(item.key)
      section_importance == tag_importance(section_title_str,
                                           Lookup(importance, "forbid"),
                                           Lookup(importance, "warning"))
      topic_tags         == TopicScan(section_title_str, topics, 1, <<>>)
      OneRow(c) ==
        LET sub == StripNumbering(c)
        IN  Row(section_title_str, sub, section_importance,
                topic_tags \o TopicScan(sub, topics, 1, topic_tags))
  IN  IF item.value.isList
      THEN [k \in 1..Len(item.value.list) |-> OneRow(item.value.list[k])]
      ELSE <<OneRow(item.value.str)>>

RECURSIVE AllRows(_, _, _)
AllRows(medicine_dictionary, importance, topics) ==
  IF medicine_dictionary = <<>> THEN <<>>
  ELSE ItemRows(Head(medicine_dictionary), importance, topics)
       \o AllRows(Tail(medicine_dictionary), importance, topics)

\* make_df: the table, the topic ids, and the exception it ends with, if any.
\* importance["forbid"] and importance["warning"] are evaluated for the first
\* item (line 153) and raise KeyError for a key the configuration lacks.
make_df(medicine_dictionary, kw) ==
  LET importance == FilterKeys(kw, importance_keys, TRUE)
      topics     == FilterKeys(kw, importance_keys, FALSE)
      raises     == /\ medicine_dictionary # <<>>
                    /\ ~(HasKey(importance, "forbid") /\ HasKey(importance, "warning"))
  IN  IF raises
      THEN [df |-> <<>>, topic_tag_int |-> <<>>, err |-> "KeyError"]
      ELSE [df |-> AllRows(medicine_dictionary, importance, topics),
            topic_tag_int |-> TopicTagInt(topics),
            err |-> "none"]

---------------------------------------------------------------------------
(* disease_keywords, find_value_in_dict, process_user_input,               *)
(* additional_tagging                                                      *)

Entry(k, v) == [key |-> k, value |-> v]

disease_keywords ==
  << Entry(<<"go", "hyeol", "ap">>,
           << <<"go", "hyeol", "ap">>, <<"hyeol", "ap">> >>),
     Entry(<<"jeo", "hyeol", "ap">>,
           << <<"jeo", "hyeol", "ap">>, <<"hyeol", "ap">> >>),
     Entry(<<"dang", "nyo">>,
           << <<"dang", "nyo">>, <<"dang", "nyo", "byeong">>, <<"hyeol", "dang">>,
              <<"in", "syul", "rin">> >>),
     Entry(<<"am">>,
           << <<"jong", "yang">>, <<"am">>, <<"bang", "sa", "seon">>,
              <<"hwa", "hak", " ", "yo", "beop">> >>),
     Entry(<<"go", "ji", "hyeol", "jeung">>,
           << <<"go", "ji", "hyeol", "jeung">>, <<"kol", "re", "seu", "te", "rol">>,
              <<"ji", "bang">>, <<"hyeol", "jung", " ", "ji", "jil">> >>),
     Entry(<<"gap", "sang", "seon">>,
           << <<"gap", "sang", "seon">>, <<"gi", "neung", " ", "hang", "jin", "jeung">>,
              <<"gi", "neung", " ", "jeo", "ha", "jeung">> >>),
     Entry(<<"bi", "man">>,
           << <<"bi", "man">>, <<"che", "jung">>, <<"gwa", "che", "jung">>,
              <<"sik", "i">> >>),
     Entry(<<"chi", "mae">>,
           << <<"chi", "mae">>, <<"al", "cheu", "ha", "i", "meo">>,
              <<"noe", "gyeong", "saek">> >>) >>

\* search_value in v, for v a list
InList(x, v) == \E i \in 1..Len(v) : v[i] = x

\* find_value_in_dict: the first (k, v) whose v holds search_value, as
\* <<entry>>; <<>> for the False it returns when there is none.
RECURSIVE find_value_in_dict(_, _)
find_value_in_dict(search_value, search_dict) ==
  IF search_dict = <<>> THEN <<>>
  ELSE IF InList(search_value, Head(search_dict).value) THEN <<Head(search_dict)>>
  ELSE find_value_in_dict(search_value, Tail(search_dict))

\* lines 207-211
RECURSIVE MedsDict(_, _)
MedsDict(previous_meds, acc) ==
  IF previous_meds = <<>> THEN acc
  ELSE MedsDict(Tail(previous_meds),
                DictSet(acc, Head(previous_meds), <<Head(previous_meds)>>))

\* lines 212-221
RECURSIVE DiseaseDict(_, _)
DiseaseDict(interest_disease, acc) ==
  IF interest_disease = <<>> THEN acc
  ELSE LET disease    == Head(interest_disease)
           find_value == find_value_in_dict(disease, disease_keywords)
       IN  DiseaseDict(Tail(interest_disease),
                       IF find_value # <<>>
                       THEN DictSet(acc, find_value[1].key, find_value[1].value)
                       ELSE DictSet(acc, disease, <<disease>>))

process_user_input(previous_meds, interest_disease) ==
  [meds_dict    |-> MedsDict(previous_meds, <<>>),
   disease_dict |-> DiseaseDict(interest_disease, <<>>)]

\* TagInt, enumerating from 1.
TagIntFromOne(d, first) == [i \in 1..Len(d) |-> Entry(d[i].key, i + first)]

\* tag_int[name] = i + first for i, name in enumerate(d.keys())   (228-229, 246-247)
TagInt(d, first) == [i \in 1..Len(d) |-> Entry(d[i].key, i - 1 + first)]

\* The list one row gets (lines 232-239, 250-257): for each entry in order,
\* its id once if the section matches and once more if the content matches.
RECURSIVE RowTags(_, _, _, _, _)
RowTags(section, content, d, tag_int, i) ==
  IF i > Len(d) THEN <<>>
  ELSE LET section_result == tag_topic(section, d[i].value, tag_int[i].value)
           content_result == tag_topic(content, d[i].value, tag_int[i].value)
       IN  (IF Truthy(section_result) THEN <<section_result>> ELSE <<>>)
           \o (IF Truthy(content_result) THEN <<content_result>> ELSE <<>>)
           \o RowTags(section, content, d, tag_int, i + 1)

\* in_df[column] = [RowTags(row) for each row]
AddPastMedicine(in_df, d, tag_int) ==
  [k \in 1..Len(in_df) |->
     in_df[k] @@ [PastMedicine |->
                    RowTags(in_df[k].Section, in_df[k].Content, d, tag_int, 1)]]

AddDiseaseInterest(in_df, d, tag_int) ==
  [k \in 1..Len(in_df) |->
     in_df[k] @@ [DiseaseInterest |->
                    RowTags(in_df[k].Section, in_df[k].Content, d, tag_int, 1)]]

\* additional_tagging: the table, the id registry, and the exception it ends
\* with, if any.  make_df builds the table of no rows as pd.DataFrame([]),
\* which has no column: in_df['Section'] (lines 231, 249) then raises KeyError.
additional_tagging(in_df, meds, diseases) ==
  LET meds_len        == Len(meds)
      meds_tag_int    == IF meds # <<>> THEN TagInt(meds, 5) ELSE <<>>
      disease_tag_int == IF diseases # <<>> THEN TagInt(diseases, 5 + meds_len) ELSE <<>>
      df1 == IF meds # <<>> THEN AddPastMedicine(in_df, meds, meds_tag_int) ELSE in_df
      df2 == IF diseases # <<>> THEN AddDiseaseInterest(df1, diseases, disease_tag_int)
             ELSE df1
  IN  IF in_df = <<>> /\ (meds # <<>> \/ diseases # <<>>)
      THEN [df |-> in_df, result_tag_int |-> [medicine |-> <<>>, disease |-> <<>>],
            err |-> "KeyError"]
      ELSE [df |-> df2,
            result_tag_int |-> [medicine |-> meds_tag_int, disease |-> disease_tag_int],
            err |-> "none"]

---------------------------------------------------------------------------
(* Inputs                                                                  *)

\* The lines input texts are made of.
LineSet ==
  { <<"1", ".", " ", "a">>,                 \* heading
    <<"2", ".", " ", "A", "b", ":", "b">>,  \* heading cut at its colon
    <<"1", ")", " ", "b">>,                 \* subsection marker  digits)
    <<"ga", ".", " ", "hyeol", "ap">>,      \* subsection marker  Hangul.
    <<"(1)", " ", "a">>,                    \* subsection marker  circled digit
    <<" ", "b", " ">>,                      \* plain line
    <<"2", ")", "a">>,                      \* plain line that starts like numbering
    <<>> }                                  \* blank line

\* '\n'.join(lines)
RECURSIVE JoinLines(_)
JoinLines(ls) ==
  IF Len(ls) = 1 THEN ls[1] ELSE ls[1] \o <<"\n">> \o JoinLines(Tail(ls))

Texts ==
  {NoneText} \cup
  {StrText(JoinLines(ls)) : ls \in UNION {[1..n -> LineSet] : n \in 1..MaxLines}}

\* Keyword lists of the configurations.
kw_a   == <<"a">>
kw_b   == <<"b">>
kw_dot == <<".", "b">>
kw_hp  == <<"hyeol", "ap">>
kw_ghp == <<"go", "hyeol", "ap">>

\* The keyword configurations: dicts in key order.
KeywordConfigs ==
  { << Entry("forbid", <<kw_a>>), Entry("warning", <<kw_b>>),
       Entry("child", <<kw_b>>), Entry("pregnant", <<kw_a>>) >>,
    << Entry("forbid", <<kw_b>>), Entry("warning", <<>>) >>,
    << Entry("child", <<kw_dot, kw_a>>), Entry("warning", <<kw_a, kw_b>>),
       Entry("forbid", <<kw_hp, kw_b>>), Entry("elder", <<kw_b>>) >>,
    << Entry("warning", <<kw_a>>), Entry("child", <<kw_a>>) >>,
    << Entry("forbid", <<kw_a>>), Entry("child", <<kw_hp>>) >>,
    << Entry("child", <<kw_a>>), Entry("pregnant", <<kw_b>>) >>,
    << Entry("forbid", <<kw_a>>), Entry("warning", <<kw_b>>),
       Entry("t0", <<kw_b>>), Entry("t1", <<kw_a>>), Entry("t2", <<kw_hp>>),
       Entry("t3", <<>>), Entry("t4", <<kw_dot>>), Entry("t5", <<kw_a>>) >> }

\* The user's lists: <<previous medicines, diseases of interest>>.
UserInputs ==
  { << <<>>, <<>> >>,
    << <<kw_a>>, <<>> >>,
    << <<>>, <<kw_hp, kw_b>> >>,
    << <<kw_b, kw_hp, kw_b>>, <<kw_ghp, kw_a, kw_hp>> >> }

Init ==
  /\ pc = "start"
  /\ text \in Texts
  /\ structured_data = <<>>
  /\ keywords = <<>>
  /\ rows = <<>>
  /\ topic_tag_int = <<>>
  /\ err = "none"
  /\ meds_dict = <<>>
  /\ disease_dict = <<>>
  /\ result_tag_int = [medicine |-> <<>>, disease |-> <<>>]

SplitSections ==
  /\ pc = "start"
  /\ structured_data' = split_sections(text)
  /\ pc' = "split"
  /\ UNCHANGED <<text, keywords, rows, topic_tag_int, err, meds_dict,
                 disease_dict, result_tag_int>>

MakeDf ==
  /\ pc = "split"
  /\ \E kw \in KeywordConfigs :
        LET r == make_df(structured_data, kw)
        IN  /\ keywords' = kw
            /\ rows' = r.df
            /\ topic_tag_int' = r.topic_tag_int
            /\ err' = r.err
            /\ pc' = IF r.err = "none" THEN "tagged" ELSE "make_df_raised"
  /\ UNCHANGED <<text, structured_data, meds_dict, disease_dict, result_tag_int>>

ProcessUserInput ==
  /\ pc = "tagged"
  /\ \E input \in UserInputs :
        LET r == process_user_input(input[1], input[2])
        IN  /\ meds_dict' = r.meds_dict
            /\ disease_dict' = r.disease_dict
  /\ pc' = "user"
  /\ UNCHANGED <<text, structured_data, keywords, rows, topic_tag_int, err,
                 result_tag_int>>

AdditionalTagging ==
  /\ pc = "user"
  /\ LET r == additional_tagging(rows, meds_dict, disease_dict)
     IN  /\ rows' = r.df
         /\ result_tag_int' = r.result_tag_int
         /\ err' = r.err
         /\ pc' = IF r.err = "none" THEN "done" ELSE "additional_tagging_raised"
  /\ UNCHANGED <<text, structured_data, keywords, topic_tag_int, meds_dict,
                 disease_dict>>

---------------------------------------------------------------------------
(* The segmenter's claims.                                                 *)

\* The lines of the input text, and which of them are headings.
TextLines == IF text.isStr THEN SplitLines(text.chars) ELSE <<>>
HeadingAt == {i \in 1..Len(TextLines) : SectionMatch(TextLines[i]) # <<>>}
HeadingText(i) == SectionMatch(TextLines[i])

\* The scope of the heading at line i: the lines after it, up to the next heading.
ScopeEnd(i) == Min({j \in HeadingAt : j > i} \cup {Len(TextLines) + 1}) - 1
Scope(i)    == (i + 1)..ScopeEnd(i)
MarkersIn(i) == {j \in Scope(i) : SubsectionMatch(TextLines[j]) # <<>>}

\* The lines a..b gathered into one buffer: each trimmed, each after a line break.
RECURSIVE Gathered(_, _)
Gathered(a, b) ==
  IF a > b THEN <<>> ELSE Gathered(a, b - 1) \o <<"\n">> \o Strip(TextLines[b])

\* The fragments of the markers of M in the scope that starts after line i: before
\* each marker, the plain lines since the previous marker (or the heading), if any.
RECURSIVE Fragments(_, _)
Fragments(i, M) ==
  IF M = {} THEN <<>>
  ELSE LET m    == Max(M)
           prev == Max({i} \cup (M \ {m}))
       IN  Fragments(i, M \ {m})
           \o (IF prev + 1 <= m - 1 THEN <<Strip(Gathered(prev + 1, m - 1))>> ELSE <<>>)
           \o <<TextLines[m]>>

\* The value the procedure gives the heading whose last occurrence is line i.
ScopeValue(i) ==
  IF MarkersIn(i) # {} THEN ListValue(Fragments(i, MarkersIn(i)))
  ELSE StrValue(Strip(Gathered(i + 1, ScopeEnd(i))))

\* The headings that are the first, resp. last, line with their heading text.
FirstOccurrences == {i \in HeadingAt : \A j \in HeadingAt : j < i => HeadingText(j) # HeadingText(i)}
LastOccurrence(k) == Max({i \in HeadingAt : HeadingText(i) = k})

PlainLine(j) == SectionMatch(TextLines[j]) = <<>> /\ SubsectionMatch(TextLines[j]) = <<>>

IsSubstring(s, t) == \E i \in 1..(Len(t) + 1), j \in 0..Len(t) : SubSeq(t, i, j) = s

\* C10: for a heading whose text occurs once, every non-blank line of its
\* scope is, trimmed, in the value stored for the heading: inside the plain
\* string, or as or inside a fragment.
C10_NoScopeLineLost ==
  pc # "start" =>
    \A i \in HeadingAt :
      (\A j \in HeadingAt : HeadingText(j) = HeadingText(i) => j = i) =>
        \A j \in Scope(i) :
          Strip(TextLines[j]) # <<>> =>
            \E n \in 1..Len(structured_data) :
              /\ structured_data[n].key = HeadingText(i)
              /\ LET v == structured_data[n].value
                 IN  IF v.isList
                     THEN \E k \in 1..Len(v.list) : IsSubstring(Strip(TextLines[j]), v.list[k])
                     ELSE IsSubstring(Strip(TextLines[j]), v.str)

\* Whitespace normalization: the text without its whitespace.
Squeeze(s) == SelectSeq(s, LAMBDA c : ~IsSpace(c))

\* The keys and contents of a mapping, concatenated in order.
RECURSIVE ConcatAll(_)
ConcatAll(l) == IF l = <<>> THEN <<>> ELSE Head(l) \o ConcatAll(Tail(l))

RECURSIVE Reassembled(_)
Reassembled(data) ==
  IF data = <<>> THEN <<>>
  ELSE LET e == Head(data)
       IN  e.key \o (IF e.value.isList THEN ConcatAll(e.value.list) ELSE e.value.str)
           \o Reassembled(Tail(data))

\* A well-formed text: it starts with a heading, no heading text occurs twice,
\* and no heading line is cut at a colon.
WellFormedText ==
  /\ text.isStr
  /\ 1 \in HeadingAt
  /\ \A i, j \in HeadingAt : HeadingText(i) = HeadingText(j) => i = j
  /\ \A i \in HeadingAt : HeadingText(i) = TextLines[i]

\* C5: the keys and contents of split_sections(text), concatenated in order,
\* equal the text up to whitespace.  The claim says so of every string; it is
\* stated here of the well-formed texts, where nothing is dropped by design.
C5_RoundTrip ==
  (pc # "start" /\ WellFormedText) => Squeeze(Reassembled(structured_data)) = Squeeze(text.chars)

---------------------------------------------------------------------------
(* The tagger's claims.                                                    *)

\* p is a numbering prefix: digits, then '.' or ')', then whitespace only.
IsNumbering(p) ==
  \E d \in 1..(Len(p) - 1) :
     /\ \A i \in 1..d : p[i] \in Digit
     /\ p[d + 1] \in {".", ")"}
     /\ \A i \in (d + 2)..Len(p) : IsSpace(p[i])

\* s without its longest numbering prefix, if it has one.
NumberingRemoved(s) ==
  LET n == {k \in 1..Len(s) : IsNumbering(SubSeq(s, 1, k))}
  IN  IF n = {} THEN s ELSE SubSeq(s, Max(n) + 1, Len(s))

\* The list of an importance key, and the empty list for a key that is absent.
ListOrEmpty(key) == IF HasKey(keywords, key) THEN Lookup(keywords, key) ELSE <<>>

\* 0 if a forbid keyword is a literal piece of the heading, else 1 if a warning
\* keyword is, else 2.
ImportanceOf(heading, forbid, warning) ==
  IF \E k \in 1..Len(forbid) : IsSubstring(forbid[k], heading) THEN 0
  ELSE IF \E k \in 1..Len(warning) : IsSubstring(warning[k], heading) THEN 1
  ELSE 2

\* The topics of the configuration, in key order: topic n has the id n - 1.
TopicsOf == SelectSeq(keywords, LAMBDA e : e.key \notin {"forbid", "warning"})

\* Some keyword of the list matches the text, as a case-insensitive pattern.
SomeKeywordMatches(kws, t) == \E k \in 1..Len(kws) : RegexSearch(kws[k], t)

Has(list, x) == \E k \in 1..Len(list) : list[k] = x

\* C1: a row's Topics holds the id of a topic if and only if a keyword of the
\* topic matches the row's stripped heading or its stripped content; so for
\* every topic, the first one (id 0) included.
C1_TopicsIffMatch ==
  pc = "tagged" =>
    \A r \in 1..Len(rows), n \in 1..Len(TopicsOf) :
       Has(rows[r].Topics, n - 1) <=>
          \/ SomeKeywordMatches(TopicsOf[n].value, rows[r].Section)
          \/ SomeKeywordMatches(TopicsOf[n].value, rows[r].Content)

\* The case of C2: one heading line, then plain lines only; a forbid keyword
\* occurs in the content; the warning list is empty.
C2_Content == Strip(Gathered(2, Len(TextLines)))

C2_Case ==
  /\ text.isStr
  /\ Len(TextLines) >= 2
  /\ HeadingAt = {1}
  /\ \A j \in 2..Len(TextLines) : PlainLine(j)
  /\ HasKey(keywords, "forbid") /\ HasKey(keywords, "warning")
  /\ Lookup(keywords, "warning") = <<>>
  /\ \E k \in 1..Len(Lookup(keywords, "forbid")) :
        IsSubstring(Lookup(keywords, "forbid")[k], C2_Content)

\* C2 as claimed: one row; Section is the heading without its numbering,
\* Content is the trimmed content, Section Importance is 0.
C2_ForbidInContent ==
  (pc = "tagged" /\ C2_Case) =>
    /\ Len(rows) = 1
    /\ rows[1].Section = NumberingRemoved(HeadingText(1))
    /\ rows[1].Content = C2_Content
    /\ rows[1].SectionImportance = 0

\* C2 as amended: one row; Section is the heading without its numbering,
\* Content is the trimmed content without a leading numbering prefix, and
\* Section Importance is 0 if a forbid keyword is a literal piece of the
\* stripped heading and 2 otherwise: a keyword in the content does not count.
C2_ImportanceFromHeading ==
  (pc = "tagged" /\ C2_Case) =>
    /\ Len(rows) = 1
    /\ rows[1].Section = NumberingRemoved(HeadingText(1))
    /\ rows[1].Content = NumberingRemoved(C2_Content)
    /\ rows[1].SectionImportance =
         ImportanceOf(NumberingRemoved(HeadingText(1)), Lookup(keywords, "forbid"), <<>>)

C2_Witness ==
  /\ pc = "tagged"
  /\ C2_Case
  /\ rows[1].SectionImportance = 2
  /\ rows[1].Content # C2_Content

\* C3: with a non-empty document and a configuration without "forbid", without
\* "warning" or without both, make_df ends without an error, and a row has
\* the importance that the absent keys' lists being empty gives.
C3_AbsentKeyIsEmptyList ==
  (/\ pc \in {"tagged", "make_df_raised"}
   /\ structured_data # <<>>
   /\ ~(HasKey(keywords, "forbid") /\ HasKey(keywords, "warning"))) =>
    /\ err = "none"
    /\ rows # <<>>
    /\ \A r \in 1..Len(rows) :
          rows[r].SectionImportance =
            ImportanceOf(rows[r].Section, ListOrEmpty("forbid"), ListOrEmpty("warning"))

\* C6: every row has Section Importance in {0, 1, 2}; it is that of the row's
\* stripped heading alone: 0 if a forbid keyword is in it, else 1 if a warning
\* keyword is, else 2; rows of the same heading have the same value.
C6_ImportanceOfHeading ==
  pc = "tagged" =>
    /\ \A r \in 1..Len(rows) :
          /\ rows[r].SectionImportance \in {0, 1, 2}
          /\ \E n \in 1..Len(structured_data) :
                rows[r].Section = NumberingRemoved(structured_data[n].key)
          /\ rows[r].SectionImportance =
               ImportanceOf(rows[r].Section, Lookup(keywords, "forbid"),
                            Lookup(keywords, "warning"))
    /\ \A r, q \in 1..Len(rows) :
          rows[r].Section = rows[q].Section =>
             rows[r].SectionImportance = rows[q].SectionImportance

\* Forbid wins over warning, on two rows of one heading.
C6_Witness ==
  /\ pc = "tagged"
  /\ \E r, q \in 1..Len(rows) :
        /\ r # q
        /\ rows[r].Section = rows[q].Section
        /\ rows[r].SectionImportance = 0
        /\ \E k \in 1..Len(Lookup(keywords, "warning")) :
              IsSubstring(Lookup(keywords, "warning")[k], rows[r].Section)

---------------------------------------------------------------------------
(* The personalization claims.                                             *)

\* The ids additional_tagging has assigned, medications first.
DynamicIds ==
  [i \in 1..Len(result_tag_int.medicine) |-> result_tag_int.medicine[i].value]
  \o [i \in 1..Len(result_tag_int.disease) |-> result_tag_int.disease[i].value]

NoDuplicate(list) == \A i, j \in 1..Len(list) : list[i] = list[j] => i = j

\* C4: the ids of the medications and diseases are pairwise distinct, and none
\* is the id of a topic of the configuration, however many topics it has.
C4_DynamicIdsDisjoint ==
  pc = "done" =>
    /\ NoDuplicate(DynamicIds)
    /\ \A i \in 1..Len(DynamicIds), n \in 1..Len(topic_tag_int) :
          DynamicIds[i] # topic_tag_int[n].value

Fold(s) == [k \in 1..Len(s) |-> Lower(s[k])]

\* Some keyword of the list occurs in the text, whatever the case of letters.
SomeKeywordOccurs(kws, t) ==
  \E k \in 1..Len(kws) :
     \E i \in 1..(Len(t) + 1), j \in 0..Len(t) : Fold(SubSeq(t, i, j)) = Fold(kws[k])

C9_NoIdTwice ==
  pc = "done" =>
    \A r \in 1..Len(rows) :
       /\ NoDuplicate(rows[r].Topics)
       /\ "PastMedicine" \in DOMAIN rows[r] => NoDuplicate(rows[r].PastMedicine)
       /\ "DiseaseInterest" \in DOMAIN rows[r] => NoDuplicate(rows[r].DiseaseInterest)

Next ==
  \/ SplitSections
  \/ MakeDf
  \/ ProcessUserInput
  \/ AdditionalTagging

Spec == Init /\ [][Next]_vars

====
